---- MODULE Spec2Model ----
(***************************************************************************)
(* Model of Scaffold_Orthogonality.py: parse_scaffolds / proc_infile and   *)
(* the double scan of check_ortho.  Python strings are sequences of        *)
(* one-character strings; 0-based Python indices are kept and translated   *)
(* to 1-based sequence indices inside the slice operators only.            *)
(***************************************************************************)
EXTENDS Integers, Sequences, FiniteSets, TLC

VARIABLES raw1, raw2, project, sc1, sc2, pc,
          sc1_full, sc2_full, i, it1, it2,
          sc1_seg, sc2_seg, sc2_seg_RC,
          count, count_RC, repeat_count, repeat_count_RC,
          n_count, n_count_RC, output, visited

vars == <<raw1, raw2, project, sc1, sc2, pc, sc1_full, sc2_full, i, it1, it2,
          sc1_seg, sc2_seg, sc2_seg_RC, count, count_RC, repeat_count,
          repeat_count_RC, n_count, n_count_RC, output, visited>>

(* ------------------------------ bounds --------------------------------- *)
\* longest scaffold enumerated exhaustively
MaxLen == 2
\* longest raw file line (without its newline) enumerated exhaustively
MaxRawLen == 2

(* --------------------------- program constants ------------------------- *)
REVERSE == [b \in {"A", "T", "G", "C"} |->
              CASE b = "A" -> "T"
                [] b = "T" -> "A"
                [] b = "G" -> "C"
                [] b = "C" -> "G"]

\* set("ATGC") of proc_infile
ATGC == {"A", "T", "G", "C"}

\* float nan of the math module; a variable that holds either nan or an int
\* holds a tagged value, PyInt(k) for the int k
nan == [float |-> "nan"]

PyInt(k) == [int |-> k]

(* --------------------------- Python primitives ------------------------- *)
Min(a, b) == IF a < b THEN a ELSE b
Max(a, b) == IF a > b THEN a ELSE b

\* s[a:b]   (step +1, CPython index adjustment: negative counts from the end,
\*           then clamped to [0, len])
Slice(s, a, b) ==
    LET L  == Len(s)
        lo == IF a < 0 THEN Max(a + L, 0) ELSE Min(a, L)
        hi == IF b < 0 THEN Max(b + L, 0) ELSE Min(b, L)
    IN  IF hi > lo THEN [k \in 1..(hi - lo) |-> s[lo + k]] ELSE <<>>

\* s[a:b:-1]  (step -1, CPython index adjustment: negative counts from the
\*             end, then clamped to [-1, len-1])
RevSlice(s, a, b) ==
    LET L == Len(s)
        adj(x) == IF x < 0 THEN (IF x + L < 0 THEN -1 ELSE x + L)
                  ELSE (IF x >= L THEN L - 1 ELSE x)
        start == adj(a)
        stop  == adj(b)
    IN  IF start > stop THEN [k \in 1..(start - stop) |-> s[start - k + 2]]
        ELSE <<>>

RECURSIVE sum(_)
sum(lst) == IF lst = <<>> THEN 0 ELSE Head(lst) + sum(Tail(lst))

\* str.upper() on one character
Upper(c) == CASE c = "a" -> "A"
              [] c = "t" -> "T"
              [] c = "g" -> "G"
              [] c = "c" -> "C"
              [] c = "x" -> "X"
              [] OTHER   -> c

\* str.strip("\n"): drop every leading and every trailing newline
RECURSIVE StripNL(_)
StripNL(s) ==
    IF s = <<>> THEN s
    ELSE IF Head(s) = "\n" THEN StripNL(Tail(s))
    ELSE IF s[Len(s)] = "\n" THEN StripNL(SubSeq(s, 1, Len(s) - 1))
    ELSE s

(* ----------------------------- proc_infile ----------------------------- *)
\* file.readline().upper().strip("\n")
Cleaned(line) == StripNL([k \in DOMAIN line |-> Upper(line[k])])

\* is_not_ATGC
is_not_ATGC(sc_str) == ~({sc_str[k] : k \in DOMAIN sc_str} \subseteq ATGC)

(* ------------------------ check_ortho local helpers -------------------- *)
\* complement(): the loop rebinds its own loop variable and the argument is
\* returned as it came in
complement(segment) ==
    LET base == [k \in DOMAIN segment |-> REVERSE[segment[k]]]
    IN  segment

circularise_sc(p, s) ==
    IF p.is_linear THEN s ELSE s \o Slice(s, 0, p.n)

\* is_match with the length test left out
is_match_no_length(seg1, seg2, p) == seg1 = seg2

is_match(seg1, seg2, p) == seg1 = seg2 /\ Len(seg1) = p.n

\* sc1_full[i: (i + project.n)] and sc2_full[i: (i + project.n)]
Window(full, pos, p) == Slice(full, pos, pos + p.n)

\* the reversed slice anchored at pos itself, sc2_full[pos : pos + n] reversed
WindowRC_same_anchor(full, pos, p) ==
    LET w == Slice(full, pos, pos + p.n)
    IN  [k \in 1..Len(w) |-> w[Len(w) - k + 1]]

\* sc2_full[(i + project.n):i:-1]
WindowRC(full, pos, p) == RevSlice(full, pos + p.n, pos)

\* an outer loop that counts in the variable i itself (a while loop on i)
OuterNext_shared(it, ivar) == IF it = 0 THEN 0 ELSE ivar + 1

\* what the outer for statement binds next: range(len(sc1)) is materialised
\* before the loop, the rebinding of i by the inner loop does not reach it
OuterNext(it, ivar) == it

\* a position recorded as a repeat from its first match on
IsRepeat_from_one(rc) == rc > 0

\* repeat_count > 1 / repeat_count_RC > 1
IsRepeat(rc) == rc > 1

\* the correction without the one contribution each repeat keeps
Corrected_no_len(cnt, lst) == cnt - sum(lst)

\* count - (sum(n_count) - len(n_count))
Corrected(cnt, lst) == cnt - (sum(lst) - Len(lst))

\* the same on a value that may be nan
CorrectedRC(cnt, lst) ==
    IF cnt = nan THEN nan ELSE PyInt(Corrected(cnt.int, lst))

(* ------------------------------ inputs --------------------------------- *)
RECURSIVE SeqsOfLen(_, _)
SeqsOfLen(S, k) ==
    IF k = 0 THEN {<<>>}
    ELSE {Append(s, c) : s \in SeqsOfLen(S, k - 1), c \in S}

SeqsUpTo(S, k) == UNION {SeqsOfLen(S, m) : m \in 0..k}

\* the symbols the enumerated scaffolds are written in: a complementary pair
\* and a third symbol; C occurs in the scenarios below
ScanSymbols == {"A", "T", "G"}

\* cleaned scaffolds as proc_infile returns them (the empty one included)
Scaffolds == SeqsUpTo(ScanSymbols, MaxLen)

Projects == [n : (-1)..(MaxLen + 1), is_linear : BOOLEAN,
             get_rev_compl : BOOLEAN]

\* the worked scenarios of the specification's section 8
Scenarios ==
    { [sc1 |-> <<"A","T","G","C","A","T","G","C">>,
       sc2 |-> <<"A","T","G","C","A","T","G","C">>,
       project |-> [n |-> 4, is_linear |-> FALSE, get_rev_compl |-> FALSE]],
      [sc1 |-> <<"A","A","A","A">>,
       sc2 |-> <<"T","T","T","T">>,
       project |-> [n |-> 2, is_linear |-> TRUE, get_rev_compl |-> TRUE]],
      [sc1 |-> <<"G","C","A","T">>,
       sc2 |-> <<"A","T","G","C">>,
       project |-> [n |-> 4, is_linear |-> FALSE, get_rev_compl |-> TRUE]],
      [sc1 |-> <<"G","C","A","T">>,
       sc2 |-> <<"A","T","G","C">>,
       project |-> [n |-> 4, is_linear |-> TRUE, get_rev_compl |-> TRUE]] }

Inputs ==
    Scenarios \cup
    { [sc1 |-> a, sc2 |-> b, project |-> p] :
         a \in Scaffolds, b \in Scaffolds, p \in Projects }

\* characters of a raw file line and the lines built from them, each with
\* or without the newline readline() leaves at the end
RawChars == {"A", "T", "g", "X"}

RawLines ==
    LET body == SeqsUpTo(RawChars, MaxRawLen)
    IN  body \cup {Append(s, "\n") : s \in body}

(* ------------------------------ states --------------------------------- *)
Locals ==
    /\ sc1_full = <<>> /\ sc2_full = <<>>
    /\ i = 0 /\ it1 = 0 /\ it2 = 0
    /\ sc1_seg = <<>> /\ sc2_seg = <<>> /\ sc2_seg_RC = <<>>
    /\ count = 0 /\ count_RC = nan
    /\ repeat_count = 0 /\ repeat_count_RC = 0
    /\ n_count = <<>> /\ n_count_RC = <<>>
    /\ output = <<>> /\ visited = <<>>

\* main() before parse_scaffolds
InitMain ==
    /\ raw1 \in RawLines /\ raw2 \in RawLines
    /\ project \in Projects
    /\ sc1 = <<>> /\ sc2 = <<>>
    /\ pc = "main"
    /\ Locals

\* check_ortho() as main() calls it with the two parsed scaffolds
Init ==
    /\ \E inp \in Inputs :
          /\ sc1 = inp.sc1 /\ sc2 = inp.sc2 /\ project = inp.project
          /\ raw1 = inp.sc1 /\ raw2 = inp.sc2
    /\ pc = "check_ortho"
    /\ Locals

scanvars == <<sc1_full, sc2_full, i, it1, it2, sc1_seg, sc2_seg, sc2_seg_RC,
              count, count_RC, repeat_count, repeat_count_RC, n_count,
              n_count_RC, output, visited>>

(* ------------------------------ actions -------------------------------- *)
\* parse_scaffolds: proc_infile on the first file, then on the second;
\* a faulty sequence ends the process (exit(0))
ParseScaffolds ==
    /\ pc = "main"
    /\ IF is_not_ATGC(Cleaned(raw1))
          THEN pc' = "exit" /\ UNCHANGED <<sc1, sc2>>
       ELSE IF is_not_ATGC(Cleaned(raw2))
          THEN pc' = "exit" /\ sc1' = Cleaned(raw1) /\ UNCHANGED sc2
       ELSE /\ sc1' = Cleaned(raw1)
            /\ sc2' = Cleaned(raw2)
            /\ pc' = "check_ortho"
    /\ UNCHANGED <<raw1, raw2, project>>
    /\ UNCHANGED scanvars

\* lines 87-90
Begin ==
    /\ pc = "check_ortho"
    /\ count' = 0
    /\ count_RC' = IF project.get_rev_compl THEN PyInt(0) ELSE nan
    /\ n_count' = <<>> /\ n_count_RC' = <<>>
    /\ sc1_full' = circularise_sc(project, sc1)
    /\ sc2_full' = circularise_sc(project, sc2)
    /\ pc' = "outer"
    /\ UNCHANGED <<raw1, raw2, project, sc1, sc2, i, it1, it2, sc1_seg,
                   sc2_seg, sc2_seg_RC, repeat_count, repeat_count_RC,
                   output, visited>>

\* lines 92-94: one more element of range(len(sc1))
OuterStep ==
    /\ pc = "outer"
    /\ OuterNext(it1, i) < Len(sc1)
    /\ i' = OuterNext(it1, i)
    /\ it1' = OuterNext(it1, i) + 1
    /\ repeat_count' = 0 /\ repeat_count_RC' = 0
    /\ sc1_seg' = Window(sc1_full, i', project)
    /\ it2' = 0
    /\ pc' = "inner"
    /\ UNCHANGED <<raw1, raw2, project, sc1, sc2, sc1_full, sc2_full,
                   sc2_seg, sc2_seg_RC, count, count_RC, n_count, n_count_RC,
                   output, visited>>

\* lines 95-105: one more element of range(len(sc2)), bound to i again
InnerStep ==
    /\ pc = "inner"
    /\ it2 < Len(sc2)
    /\ i' = it2
    /\ it2' = it2 + 1
    /\ sc2_seg' = Window(sc2_full, i', project)
    /\ LET hit == is_match(sc1_seg, sc2_seg', project)
       IN  /\ count' = IF hit THEN count + 1 ELSE count
           /\ repeat_count' = IF hit THEN repeat_count + 1 ELSE repeat_count
    /\ IF project.get_rev_compl
          THEN /\ sc2_seg_RC' = complement(WindowRC(sc2_full, i', project))
               /\ LET hit_RC == is_match(sc1_seg, sc2_seg_RC', project)
                  IN  /\ count_RC' = IF hit_RC THEN PyInt(count_RC.int + 1)
                                     ELSE count_RC
                      /\ repeat_count_RC' = IF hit_RC THEN repeat_count_RC + 1
                                            ELSE repeat_count_RC
          ELSE UNCHANGED <<sc2_seg_RC, count_RC, repeat_count_RC>>
    /\ visited' = Append(visited, <<it1 - 1, it2>>)
    /\ UNCHANGED <<raw1, raw2, project, sc1, sc2, pc, sc1_full, sc2_full,
                   it1, sc1_seg, n_count, n_count_RC, output>>

\* lines 107-110: range(len(sc2)) is exhausted
InnerExit ==
    /\ pc = "inner"
    /\ it2 >= Len(sc2)
    /\ n_count' = IF IsRepeat(repeat_count)
                  THEN Append(n_count, repeat_count) ELSE n_count
    /\ n_count_RC' = IF IsRepeat(repeat_count_RC)
                     THEN Append(n_count_RC, repeat_count_RC) ELSE n_count_RC
    /\ pc' = "outer"
    /\ UNCHANGED <<raw1, raw2, project, sc1, sc2, sc1_full, sc2_full, i, it1,
                   it2, sc1_seg, sc2_seg, sc2_seg_RC, count, count_RC,
                   repeat_count, repeat_count_RC, output, visited>>

\* lines 112-123: range(len(sc1)) is exhausted
Finish ==
    /\ pc = "outer"
    /\ OuterNext(it1, i) >= Len(sc1)
    /\ output' = [count                    |-> count,
                  count_revcompl           |-> count_RC,
                  count_corrected          |-> Corrected(count, n_count),
                  count_revcompl_corrected |-> CorrectedRC(count_RC, n_count_RC),
                  n_count                  |-> n_count,
                  n_count_revcompl         |-> n_count_RC]
    /\ pc' = "done"
    /\ UNCHANGED <<raw1, raw2, project, sc1, sc2, sc1_full, sc2_full, i, it1,
                   it2, sc1_seg, sc2_seg, sc2_seg_RC, count, count_RC,
                   repeat_count, repeat_count_RC, n_count, n_count_RC,
                   visited>>

Next == Begin \/ OuterStep \/ InnerStep \/ InnerExit \/ Finish

Spec == Init /\ [][Next]_vars

NextMain == ParseScaffolds \/ Begin \/ OuterStep \/ InnerStep \/ InnerExit
            \/ Finish

SpecMain == InitMain /\ [][NextMain]_vars

\* the scan is a straight line of steps: every enabled step is eventually taken
FairSpec == Spec /\ WF_vars(Next)

(* ----------------------- notions used by the properties ---------------- *)
\* the n symbols read from position pos of s taken as a cycle
CycWindow(s, pos, n) == [k \in 1..n |-> s[((pos + k - 1) % Len(s)) + 1]]

\* order reversed and every symbol replaced by its partner
ReverseComplement(w) == [k \in 1..Len(w) |-> REVERSE[w[Len(w) - k + 1]]]

\* the windows of s a scan can compare: in linear mode the n symbols from pos
\* when they all exist, in circular mode the n symbols from pos on the cycle
HasWindow(s, pos, p) == p.is_linear => pos + p.n <= Len(s)

Positions(s) == 0..(Len(s) - 1)

\* n is a segment length the specification calls meaningful
MeaningfulN == project.n >= 1 /\ project.n <= Len(sc1) /\ project.n <= Len(sc2)

\* an inner iteration has just run: its sc2 position and the sc1 position of
\* the outer iteration it belongs to
InnerDone == pc = "inner" /\ it2 > 0
jpos == it2 - 1
ipos == it1 - 1

\* the scan written with two index variables a (over sc1) and b (over sc2)
TwoIndexScan(s1, s2, p) ==
    LET f1 == circularise_sc(p, s1)
        f2 == circularise_sc(p, s2)
        hits(a) == Cardinality({b \in Positions(s2) :
                       is_match(Window(f1, a, p), Window(f2, b, p), p)})
        hitsRC(a) == IF p.get_rev_compl
                     THEN Cardinality({b \in Positions(s2) :
                            is_match(Window(f1, a, p),
                                     complement(WindowRC(f2, b, p)), p)})
                     ELSE 0
        more(x) == x > 1
        R   == SelectSeq([a \in 1..Len(s1) |-> hits(a - 1)], more)
        RRC == SelectSeq([a \in 1..Len(s1) |-> hitsRC(a - 1)], more)
        C   == sum([a \in 1..Len(s1) |-> hits(a - 1)])
        CRC == sum([a \in 1..Len(s1) |-> hitsRC(a - 1)])
    IN  [count                    |-> C,
         count_revcompl           |-> IF p.get_rev_compl THEN PyInt(CRC) ELSE nan,
         count_corrected          |-> C - (sum(R) - Len(R)),
         count_revcompl_corrected |-> IF p.get_rev_compl
                                      THEN PyInt(CRC - (sum(RRC) - Len(RRC)))
                                      ELSE nan,
         n_count                  |-> R,
         n_count_revcompl         |-> RRC]

\* every pair (a, b), a over sc1 and b over sc2, in scan order
AllPairs(s1, s2) ==
    [k \in 1..(Len(s1) * Len(s2)) |->
        <<(k - 1) \div Len(s2), (k - 1) % Len(s2)>>]

(* ------------------------------ properties ----------------------------- *)
\* C1: with reverse-complement mode on, count_revcompl is the number of pairs
\* of an sc1 window and an sc2 window where the sc1 window is the reverse
\* complement of the sc2 window; for AAAA / TTTT, n = 2, linear, the exact
\* count is 0 and the reverse-complement count is positive.
C1_RevComplCounted ==
    (pc = "done" /\ project.get_rev_compl /\ MeaningfulN) =>
        /\ output.count_revcompl =
              PyInt(Cardinality(
                 {ab \in Positions(sc1) \X Positions(sc2) :
                     /\ HasWindow(sc1, ab[1], project)
                     /\ HasWindow(sc2, ab[2], project)
                     /\ CycWindow(sc1, ab[1], project.n) =
                          ReverseComplement(CycWindow(sc2, ab[2], project.n))}))
        /\ (sc1 = <<"A","A","A","A">> /\ sc2 = <<"T","T","T","T">>
               /\ project.n = 2 /\ project.is_linear)
             => (output.count = 0 /\ output.count_revcompl.int > 0)

\* C2: the segment the complement mapper returns is the reverse complement of
\* the window it was taken from: every symbol is replaced by its partner, and
\* a window that is not its own reverse complement comes back changed.
C2_ComplementMaps ==
    (InnerDone /\ project.get_rev_compl) =>
        LET seg == WindowRC(sc2_full, jpos, project)
            w   == [k \in 1..Len(seg) |-> seg[Len(seg) - k + 1]]
        IN  /\ sc2_seg_RC = [k \in 1..Len(seg) |-> REVERSE[seg[k]]]
            /\ sc2_seg_RC = ReverseComplement(w)
            /\ ReverseComplement(sc2_seg_RC) = w
            /\ (w # ReverseComplement(w)) => sc2_seg_RC # w

\* C3: a segment length that is not positive or exceeds the length of sc1 or
\* of sc2 is refused before any window comparison: no pair is compared and no
\* result record is produced.
C3_InvalidSegmentLength ==
    (project.n > Len(sc2) \/ project.n > Len(sc1) \/ project.n <= 0) =>
        (visited = <<>> /\ output = <<>>)

\* C4: in the result, the corrected count is at most the raw count and equals
\* it exactly when the repeat-multiplicity list is empty; for the exact
\* counts always, for the reverse-complement counts when that mode is on.
C4_CorrectedLeqRaw ==
    pc = "done" =>
        /\ output.count_corrected <= output.count
        /\ (output.count_corrected = output.count) <=> (output.n_count = <<>>)
        /\ project.get_rev_compl =>
             /\ output.count_revcompl_corrected.int <= output.count_revcompl.int
             /\ (output.count_revcompl_corrected = output.count_revcompl)
                   <=> (output.n_count_revcompl = <<>>)

C4_Witness ==
    /\ pc = "done" /\ project.get_rev_compl
    /\ output.n_count # <<>> /\ output.n_count_revcompl # <<>>
    /\ output.count_corrected < output.count
    /\ output.count_revcompl_corrected.int < output.count_revcompl.int

\* C5: the corrected exact count is the number of sc1 start positions whose
\* window matches at least one sc2 window, hence at most len(sc1); for
\* ATGCATGC against itself, n = 4, circular, the raw count exceeds 8 and the
\* corrected count is 8.
C5_OnePerPosition ==
    pc = "done" =>
        /\ output.count_corrected =
              Cardinality({a \in Positions(sc1) : \E b \in Positions(sc2) :
                  is_match(Window(sc1_full, a, project),
                           Window(sc2_full, b, project), project)})
        /\ output.count_corrected <= Len(sc1)
        /\ (sc1 = <<"A","T","G","C","A","T","G","C">> /\ sc2 = sc1
               /\ project.n = 4 /\ ~project.is_linear)
             => (output.count > 8 /\ output.count_corrected = 8)

C5_Witness ==
    /\ pc = "done"
    /\ sc1 = <<"A","T","G","C","A","T","G","C">> /\ sc2 = sc1
    /\ project.n = 4 /\ ~project.is_linear /\ ~project.get_rev_compl
    /\ output.count = 16 /\ output.count_corrected = 8

\* C6: for n <= min(len(sc1), len(sc2)), an inner iteration where the sc1
\* window or the sc2 window starts in the last n-1 positions counts a match
\* in circular mode exactly when the two windows, continued at the beginning
\* of their sequences, are equal, and never counts one in linear mode.
C6_WrapSpanning ==
    [][ (pc = "inner" /\ it2' = it2 + 1 /\ MeaningfulN
           /\ (ipos + project.n > Len(sc1) \/ it2 + project.n > Len(sc2)))
        => IF project.is_linear
           THEN count' = count
           ELSE (count' = count + 1) <=>
                   (CycWindow(sc1, ipos, project.n)
                      = CycWindow(sc2, it2, project.n)) ]_vars

C6_Witness ==
    /\ InnerDone /\ MeaningfulN /\ ~project.is_linear
    /\ ipos + project.n > Len(sc1)
    /\ jpos + project.n <= Len(sc2)
    /\ sc1_seg = sc2_seg /\ Len(sc1_seg) = project.n
    /\ sc1_seg = CycWindow(sc1, ipos, project.n)
    /\ repeat_count > 0 /\ count > 0

\* C9: the scan compares every pair (a, b) of an sc1 position and an sc2
\* position exactly once, in order; during an outer iteration the sc1 window
\* is the one at the outer position; the six result fields are those of the
\* scan written with two index variables.
C9_Inv ==
    /\ \A k, m \in 1..Len(visited) : visited[k] = visited[m] => k = m
    /\ \A k \in 1..Len(visited) :
          visited[k] \in Positions(sc1) \X Positions(sc2)
    /\ pc = "inner" =>
          /\ sc1_seg = Window(sc1_full, ipos, project)
          /\ visited = SubSeq(AllPairs(sc1, sc2), 1, ipos * Len(sc2) + it2)
    /\ pc = "done" =>
          /\ visited = AllPairs(sc1, sc2)
          /\ output = TwoIndexScan(sc1, sc2, project)

\* C9, with termination: the above holds throughout and the scan ends
C9_ShadowedIndexHarmless == []C9_Inv /\ <>(pc = "done")

C9_Witness ==
    /\ pc = "done" /\ Len(sc1) >= 2 /\ Len(sc2) >= 1
    /\ i = Len(sc2) - 1 /\ i # Len(sc1) - 1
    /\ Len(visited) = Len(sc1) * Len(sc2)
    /\ output.count > 0

\* C7: with reverse-complement mode off, the three reverse-complement fields
\* of the result are in a not-computed state, none of them a number or a
\* list a computed scan could return, and the three exact-match fields are
\* those obtained with the mode on.
C7_RevComplAbsent ==
    (pc = "done" /\ ~project.get_rev_compl) =>
        /\ "int" \notin DOMAIN output.count_revcompl
        /\ "int" \notin DOMAIN output.count_revcompl_corrected
        /\ output.n_count_revcompl \notin Seq(Nat)
        /\ LET on == TwoIndexScan(sc1, sc2,
                        [project EXCEPT !.get_rev_compl = TRUE])
           IN  /\ output.count = on.count
               /\ output.count_corrected = on.count_corrected
               /\ output.n_count = on.n_count

\* C8: a raw line is accepted exactly when, upper-cased and without its
\* trailing newline, it is non-empty and made of A, T, G, C only; an accepted
\* line is returned as that cleaned string; after a rejection nothing is
\* scored.
LineBody(line) ==
    IF line # <<>> /\ line[Len(line)] = "\n"
    THEN SubSeq(line, 1, Len(line) - 1) ELSE line

ValidLine(line) ==
    /\ LineBody(line) # <<>>
    /\ \A k \in 1..Len(LineBody(line)) : Upper(LineBody(line)[k]) \in ATGC

C8_ValidatorAccepts ==
    pc # "main" =>
        /\ (pc # "exit") <=> (ValidLine(raw1) /\ ValidLine(raw2))
        /\ pc # "exit" =>
              /\ sc1 = [k \in 1..Len(LineBody(raw1)) |-> Upper(LineBody(raw1)[k])]
              /\ sc2 = [k \in 1..Len(LineBody(raw2)) |-> Upper(LineBody(raw2)[k])]
        /\ pc = "exit" => (visited = <<>> /\ output = <<>>)

\* C10: for n >= 0 and reverse-complement mode on, the window compared at
\* sc2 position j holds the extended-sc2 symbols at indices j+n down to j+1,
\* cut off at the end of the extended buffer; in linear mode the iteration at
\* j = len(sc2) - n never counts a reverse-complement match, and no forward
\* match is counted at a later position.
C10_SkewedWindow ==
    [][ (pc = "inner" /\ it2' = it2 + 1 /\ project.get_rev_compl
           /\ project.n >= 0)
        => LET j   == it2
               top == Min(j + project.n, Len(sc2_full) - 1)
           IN  /\ Len(sc2_seg_RC') = Max(top - j, 0)
               /\ \A k \in 1..Len(sc2_seg_RC') :
                     sc2_seg_RC'[k] = sc2_full[(top - k + 1) + 1]
               /\ (project.is_linear /\ j = Len(sc2) - project.n
                     /\ project.n >= 1)
                    => (count_RC' = count_RC /\ Len(sc2_seg_RC') < project.n)
               /\ (project.is_linear /\ j > Len(sc2) - project.n)
                    => count' = count ]_vars

C10_Witness ==
    /\ InnerDone /\ project.get_rev_compl /\ project.is_linear
    /\ project.n >= 2 /\ jpos = Len(sc2) - project.n
    /\ sc2_seg = sc1_seg /\ Len(sc2_seg) = project.n /\ count > 0
    /\ Len(sc2_seg_RC) = project.n - 1
    /\ count_RC = PyInt(0)

====
